---- MODULE Spec2Model ----
(***************************************************************************)
(* Model of the per-document version-control engine of src/dvcs.py:        *)
(* the persisted repository (metadata.json and the blob files beside it),  *)
(* the tracked file, the in-memory state of a DVCS handle, and the         *)
(* operations init, add, get, revert, history and show_diff.               *)
(*                                                                         *)
(* File contents are abstracted to small integers ("bytes").  The external *)
(* xdelta3 tool is a capability with an explicit status; its encoding is   *)
(* modelled by modular difference so that a delta decoded against another  *)
(* base than the one it was encoded from yields other bytes.               *)
(***************************************************************************)
EXTENDS Integers, Sequences, FiniteSets, TLC

\* ------------------------------------------------------------------ bounds
MaxVersions == 3
NumBytes == 2
MaxInterval == 3

Bytes == 0 .. (NumBytes - 1)
Intervals == 1 .. MaxInterval
VersionArgs == 0 .. (MaxVersions + 1)
DocTypes == {"docx", "pdf"}
Messages == {"Update"}
Handles == {1}
\* xdelta3 during one operation: it works, it is not installed, or it is
\* installed and exits with an error when encoding, or when decoding
ToolStates == {"ok", "unavailable", "encode_error", "decode_error"}
EncodeFailStates == {"unavailable", "encode_error"}
EncodeWorkStates == ToolStates \ EncodeFailStates
\* what a command that only decodes can tell apart
DecodeStates == {"ok", "unavailable", "decode_error"}

\* ------------------------------------------------------------------ state
VARIABLES
    file,       \* bytes of the tracked document (self.file_path)
    output,     \* the file at get's output path: <<>> absent, <<b>> present
    meta,       \* metadata.json: <<>> when it does not exist, else <<RepoState>>
    blobs,      \* blob files of the repository directory: name -> content
    handle,     \* the constructed DVCS objects: handle id -> object
    last,       \* the last operation and how it ended
    committed   \* history: the bytes the tracked file held at each commit

vars == <<file, output, meta, blobs, handle, last, committed>>

\* ------------------------------------------------------------------ data model
\* Optional[int] base_version: None
NoBase == 0

VersionEntry(version, kind, fname, message, base_version) ==
    [version |-> version, kind |-> kind, file |-> fname,
     message |-> message, base_version |-> base_version]

\* a mutant of RepoState: snapshot_interval is left at the dataclass default
RepoStateDefaultInterval(document_type, snapshot_interval, versions) ==
    [document_type |-> document_type,
     snapshot_interval |-> 5,
     versions |-> versions]

RepoState(document_type, snapshot_interval, versions) ==
    [document_type |-> document_type,
     snapshot_interval |-> snapshot_interval,
     versions |-> versions]

\* a mutant of load: the constructor does not read metadata.json
load_nothing == <<>>

\* a mutant of load: a missing metadata.json gives an empty default RepoState
load_default ==
    IF meta = <<>>
    THEN <<[document_type |-> "docx", snapshot_interval |-> 5, versions |-> <<>>]>>
    ELSE meta

\* RepoState.load: None (<<>>) when metadata.json does not exist
load == meta

\* a mutant of save: the ledger is written without its newest record
save_before_append(st) ==
    <<[st EXCEPT !.versions = IF Len(@) > 1 THEN SubSeq(@, 1, Len(@) - 1) ELSE @]>>

\* a mutant of save: the type and the interval the handle was constructed
\* with are written in place of those of the state
save_handle_args(st) ==
    LET hd == handle[CHOOSE h \in DOMAIN handle : TRUE]
    IN  <<[st EXCEPT !.document_type = hd.doc_type,
                     !.snapshot_interval = hd.snapshot_interval]>>

\* RepoState.save: the whole in-memory state overwrites metadata.json
save(st) == <<st>>

\* a mutant of _version_file: every file gets the suffix of a snapshot
_version_file_one_suffix(ver, snapshot) == <<ver, ".snapshot">>

\* a mutant of _version_file: the name does not depend on the version
_version_file_fixed(ver, snapshot) ==
    <<1, IF snapshot THEN ".snapshot" ELSE ".delta">>

\* f"v{ver:04d}{suffix}": the version number and the suffix
_version_file(ver, snapshot) ==
    <<ver, IF snapshot THEN ".snapshot" ELSE ".delta">>

exists(bl, fname) == fname \in DOMAIN bl

write_bytes(bl, fname, data) == (fname :> data) @@ bl

\* Python's a % b for a >= 0 and b # 0 (the result takes the sign of b)
PyMod(a, b) ==
    IF b > 0 THEN a % b
    ELSE IF a % (0 - b) = 0 THEN 0 ELSE b + (a % (0 - b))

LastOf(s) == s[Len(s)]

\* ------------------------------------------------------------------ patch tool
\* a mutant of Encode: the delta is taken against an empty source
EncodeIgnoresPrior(prior, new) == new

\* xdelta3 -e -s PRIOR NEW DELTA
Encode(prior, new) == (new - prior + NumBytes) % NumBytes

\* xdelta3 -d -s BASE DELTA OUT
\* a mutant of Decode: the patch is taken for the result
DecodeIgnoresBase(base, delta) == delta

Decode(base, delta) == (base + delta) % NumBytes

\* which("xdelta3"): the path of the tool, or None
which(tool) == tool # "unavailable"

\* a mutant of EncodeSucceeds: the exit status of the tool is not checked
EncodeUnchecked(tool, bl, delta_path) == TRUE

\* subprocess.run([xd, "-e", ...], check=True) returns normally: the tool
\* encodes, and (no -f is passed) its output file does not exist yet
EncodeSucceeds(tool, bl, delta_path) ==
    /\ tool \notin {"unavailable", "encode_error"}
    /\ ~exists(bl, delta_path)

\* subprocess.run([xd, "-d", ...], check=True) returns normally
DecodeSucceeds(tool, bl, delta_path) ==
    /\ tool \notin {"unavailable", "decode_error"}
    /\ exists(bl, delta_path)

\* ------------------------------------------------------------------ internals
Ok(data) == [err |-> "ok", data |-> data]
Raise(e) == [err |-> e, data |-> 0]

Max(S) == CHOOSE x \in S : \A y \in S : y <= x
Min(S) == CHOOSE x \in S : \A y \in S : x <= y

\* a mutant of _nearest_snapshot_before: the scan stops before the first record
_nearest_snapshot_before_skips_first(versions, next_ver) ==
    LET hits == {i \in 2 .. Len(versions) :
                    versions[i].version < next_ver /\ versions[i].kind = "snapshot"}
    IN  IF hits = {} THEN 0 ELSE Max(hits)

\* index (1-based) of the last record with version < next_ver that is a
\* snapshot; 0 stands for the RuntimeError raised when there is none
_nearest_snapshot_before(versions, next_ver) ==
    LET hits == {i \in 1 .. Len(versions) :
                    versions[i].version < next_ver /\ versions[i].kind = "snapshot"}
    IN  IF hits = {} THEN 0 ELSE Max(hits)

\* a mutant of _nearest_snapshot_at_or_before: the test is version < ver
_nearest_snapshot_strictly_before(versions, ver) ==
    LET hits == {i \in 1 .. Len(versions) :
                    versions[i].version < ver /\ versions[i].kind = "snapshot"}
    IN  IF hits = {} THEN 0 ELSE Max(hits)

\* a mutant of _nearest_snapshot_at_or_before: the scan runs forward and
\* stops at the first snapshot
_first_snapshot(versions, ver) ==
    LET hits == {i \in 1 .. Len(versions) :
                    versions[i].version <= ver /\ versions[i].kind = "snapshot"}
    IN  IF hits = {} THEN 0 ELSE Min(hits)

\* a mutant of _nearest_snapshot_at_or_before: the test version <= ver is missing
_latest_snapshot(versions, ver) ==
    LET hits == {i \in 1 .. Len(versions) : versions[i].kind = "snapshot"}
    IN  IF hits = {} THEN 0 ELSE Max(hits)

\* index of the last record with version <= ver that is a snapshot, or 0
_nearest_snapshot_at_or_before(versions, ver) ==
    LET hits == {i \in 1 .. Len(versions) :
                    versions[i].version <= ver /\ versions[i].kind = "snapshot"}
    IN  IF hits = {} THEN 0 ELSE Max(hits)

\* index of the first record whose version is ver; 0 stands for the KeyError
_entry_for(versions, ver) ==
    LET hits == {i \in 1 .. Len(versions) : versions[i].version = ver}
    IN  IF hits = {} THEN 0 ELSE Min(hits)

\* a mutant of Replay: a delta is applied only when its base_version is the
\* version the buffer holds
RECURSIVE ReplayFromBase(_, _, _, _, _, _)
ReplayFromBase(versions, bl, tool, v, target, data) ==
    IF v > target THEN Ok(data)
    ELSE LET i == _entry_for(versions, v) IN
         IF i = 0 THEN Raise("KeyError")
         ELSE LET entry == versions[i] IN
              IF entry.kind = "snapshot"
              THEN IF exists(bl, entry.file)
                   THEN ReplayFromBase(versions, bl, tool, v + 1, target, bl[entry.file])
                   ELSE Raise("FileNotFound")
              ELSE IF ~which(tool) THEN Raise("ToolUnavailable")
              ELSE IF ~DecodeSucceeds(tool, bl, entry.file) THEN Raise("DecodeFailed")
              ELSE IF entry.base_version # v - 1 THEN Raise("KeyError")
              ELSE ReplayFromBase(versions, bl, tool, v + 1, target,
                                  Decode(data, bl[entry.file]))

\* the loop of _reconstruct_bytes: for v in range(snap.version + 1, target + 1)
RECURSIVE Replay(_, _, _, _, _, _)
Replay(versions, bl, tool, v, target, data) ==
    IF v > target THEN Ok(data)
    ELSE LET i == _entry_for(versions, v) IN
         IF i = 0 THEN Raise("KeyError")
         ELSE LET entry == versions[i] IN
              IF entry.kind = "snapshot"
              THEN IF exists(bl, entry.file)
                   THEN Replay(versions, bl, tool, v + 1, target, bl[entry.file])
                   ELSE Raise("FileNotFound")
              ELSE IF ~which(tool) THEN Raise("ToolUnavailable")
              ELSE IF ~DecodeSucceeds(tool, bl, entry.file) THEN Raise("DecodeFailed")
              ELSE Replay(versions, bl, tool, v + 1, target,
                          Decode(data, bl[entry.file]))

\* a mutant of _reconstruct_bytes: the upper end of the range is not checked
_reconstruct_bytes_no_upper(st, bl, tool, target_version) ==
    IF st.versions = <<>> THEN Raise("IndexError")
    ELSE IF target_version < 1 THEN Raise("VersionOutOfRange")
    ELSE LET s == _nearest_snapshot_at_or_before(st.versions, target_version) IN
         IF s = 0 THEN Raise("NoSnapshot")
         ELSE IF ~exists(bl, st.versions[s].file) THEN Raise("FileNotFound")
         ELSE Replay(st.versions, bl, tool, st.versions[s].version + 1,
                     target_version, bl[st.versions[s].file])

_reconstruct_bytes(st, bl, tool, target_version) ==
    IF st.versions = <<>> THEN Raise("IndexError")
    ELSE IF target_version < 1 \/ target_version > LastOf(st.versions).version
    THEN Raise("VersionOutOfRange")
    ELSE LET s == _nearest_snapshot_at_or_before(st.versions, target_version) IN
         IF s = 0 THEN Raise("NoSnapshot")
         ELSE IF ~exists(bl, st.versions[s].file) THEN Raise("FileNotFound")
         ELSE Replay(st.versions, bl, tool, st.versions[s].version + 1,
                     target_version, bl[st.versions[s].file])

\* the version whose record stops the reconstruction of target_version: the
\* first one, from the snapshot on, that cannot be reconstructed
FailingVersion(st, bl, tool, target_version) ==
    LET s == _nearest_snapshot_at_or_before(st.versions, target_version)
    IN  Min({w \in st.versions[s].version .. target_version :
                _reconstruct_bytes(st, bl, tool, w).err # "ok"})

\* the text of the RuntimeError _reconstruct_bytes raises for a delta it
\* cannot apply, as <<text>> or <<text, version>>
ErrorMessage(st, bl, tool, target_version) ==
    LET r == _reconstruct_bytes(st, bl, tool, target_version) IN
    IF r.err = "DecodeFailed"
    THEN <<"Failed to apply delta for v", FailingVersion(st, bl, tool, target_version)>>
    ELSE IF r.err = "ToolUnavailable"
    THEN <<"xdelta3 not available to apply delta; cannot reconstruct.">>
    ELSE <<r.err>>

\* ------------------------------------------------------------------ commit engine
\* a mutant of IsCadenceVersion: next_ver % snapshot_interval == 0
IsCadenceOffByOne(st, next_ver) ==
    PyMod(next_ver, st.snapshot_interval) = 0

\* a mutant of IsCadenceVersion: a snapshot every snapshot_interval + 1 versions
IsCadenceTooSparse(st, next_ver) ==
    PyMod(next_ver - 1, st.snapshot_interval + 1) = 0

\* a mutant of IsCadenceVersion: the schedule restarts at the latest snapshot
IsCadenceRebased(st, next_ver) ==
    LET b == _nearest_snapshot_before(st.versions, next_ver)
    IN  b # 0 /\ PyMod(next_ver - st.versions[b].version, st.snapshot_interval) = 0

\* a mutant of IsCadenceVersion: the interval the handle was constructed with
IsCadenceHandleInterval(st, next_ver) ==
    PyMod(next_ver - 1,
          handle[CHOOSE h \in DOMAIN handle : handle[h].state = <<st>>].snapshot_interval) = 0

\* a mutant of IsCadenceVersion: the cadence is counted from version 2
IsCadenceShifted(st, next_ver) ==
    PyMod(next_ver - 2, st.snapshot_interval) = 0

\* the cadence test of add: (next_ver - 1) % snapshot_interval == 0
IsCadenceVersion(st, next_ver) ==
    PyMod(next_ver - 1, st.snapshot_interval) = 0

\* a mutant of next_version: the number of the latest version is used again
next_version_reused(st) == LastOf(st.versions).version

\* next_ver = self.state.versions[-1].version + 1
next_version(st) == LastOf(st.versions).version + 1

\* a mutant of AddFails: the snapshot file of the next version was written
\* before the error
AddFailsAfterWrite(e, st, bl) ==
    [err |-> e, state |-> st,
     blobs |-> write_bytes(bl, _version_file(LastOf(st.versions).version + 1, TRUE), 0)]

\* add raises e: nothing appended, nothing written
AddFails(e, st, bl) == [err |-> e, state |-> st, blobs |-> bl]

\* a mutant of DeltaEntry: base_version is the version of the record itself
DeltaEntryBaseIsSelf(next_ver, fname, message) ==
    VersionEntry(next_ver, "delta", fname, message, next_ver)

\* the record add appends for a delta
DeltaEntry(next_ver, fname, message) ==
    VersionEntry(next_ver, "delta", fname, message, next_ver - 1)

\* a mutant of SnapshotEntry: the record is marked as a delta
SnapshotEntryAsDelta(next_ver, fname, message) ==
    VersionEntry(next_ver, "delta", fname, message, NoBase)

\* the record init writes, and add appends for a snapshot at a cadence version
SnapshotEntry(next_ver, fname, message) ==
    VersionEntry(next_ver, "snapshot", fname, message, NoBase)

\* a mutant of FallbackEntry: the message is stored as given
FallbackEntryPlain(next_ver, fname, message) ==
    VersionEntry(next_ver, "snapshot", fname, message, NoBase)

\* the record add appends when it falls back to a snapshot
FallbackEntry(next_ver, fname, message) ==
    VersionEntry(next_ver, "snapshot", fname,
                 message \o " (fallback snapshot)", NoBase)

AddAppends(entry, data, st, bl) ==
    [err |-> "ok",
     state |-> [st EXCEPT !.versions = Append(@, entry)],
     blobs |-> write_bytes(bl, entry.file, data)]

\* DVCS.add on an initialized handle: the error it raises ("ok" when it
\* returns), and the in-memory state and the blob files it leaves
add(st, bl, tool, data, message) ==
    LET next_ver == next_version(st) IN
    IF st.snapshot_interval = 0 THEN AddFails("ZeroDivisionError", st, bl)
    ELSE IF IsCadenceVersion(st, next_ver)
    THEN AddAppends(SnapshotEntry(next_ver, _version_file(next_ver, TRUE), message),
                    data, st, bl)
    ELSE LET b == _nearest_snapshot_before(st.versions, next_ver) IN
         IF b = 0 THEN AddFails("NoSnapshot", st, bl)
         ELSE IF ~exists(bl, st.versions[b].file) THEN AddFails("FileNotFound", st, bl)
         ELSE LET prior == _reconstruct_bytes(st, bl, tool, next_ver - 1)
                  delta_path == _version_file(next_ver, FALSE)
              IN  IF prior.err # "ok" THEN AddFails(prior.err, st, bl)
                  ELSE IF which(tool) /\ EncodeSucceeds(tool, bl, delta_path)
                  THEN AddAppends(DeltaEntry(next_ver, delta_path, message),
                                  Encode(prior.data, data), st, bl)
                  ELSE AddAppends(FallbackEntry(next_ver, _version_file(next_ver, TRUE),
                                                message),
                                  data, st, bl)

\* the temporary files add and _reconstruct_bytes hand to xdelta3; they are
\* files of the repository directory
PriorTmp == <<0, ".prior.tmp">>

NewTmp == <<0, ".new.tmp">>

BaseTmp == <<0, ".base.tmp">>

OutTmp == <<0, ".out.tmp">>

TempFiles == {PriorTmp, NewTmp, BaseTmp, OutTmp}

\* for p in (...): if p.exists(): p.unlink()
unlink(bl, names) == [f \in (DOMAIN bl) \ names |-> bl[f]]

\* which write_bytes of add's temporary files raises OSError, if any; a
\* write that fails is taken to leave no file
IOFailures == {"none", "prior_tmp", "new_tmp"}

\* add reaches the block that prepares xdelta3's input files
ReachesEncoder(st, bl, tool) ==
    LET next_ver == next_version(st)
        b == _nearest_snapshot_before(st.versions, next_ver)
    IN  /\ st.snapshot_interval # 0
        /\ ~IsCadenceVersion(st, next_ver)
        /\ b # 0
        /\ exists(bl, st.versions[b].file)
        /\ _reconstruct_bytes(st, bl, tool, next_ver - 1).err = "ok"
        /\ which(tool)

\* DVCS.add when writing a temporary file may fail: .prior.tmp and .new.tmp
\* are written before the try block, whose finally clause unlinks them
add_io(st, bl, tool, data, message, io) ==
    IF ~ReachesEncoder(st, bl, tool) THEN add(st, bl, tool, data, message)
    ELSE IF io = "prior_tmp" THEN AddFails("OSError", st, bl)
    ELSE IF io = "new_tmp"
    THEN AddFails("OSError", st,
                  write_bytes(bl, PriorTmp,
                              _reconstruct_bytes(st, bl, tool, next_version(st) - 1).data))
    ELSE LET r == add(st, bl, tool, data, message)
         IN  [r EXCEPT !.blobs = unlink(@, {PriorTmp, NewTmp})]

\* ------------------------------------------------------------------ operations
Done(op, outcome) == [op |-> op, outcome |-> outcome]

Constructed(h) == h \in DOMAIN handle

\* _require_initialized
Initialized(h) == handle[h].state # <<>>

\* DVCS(file_path, doc_type, snapshot_interval)
Open(h, doc_type, snapshot_interval) ==
    /\ handle' = (h :> [doc_type |-> doc_type,
                        snapshot_interval |-> snapshot_interval,
                        state |-> load]) @@ handle
    /\ last' = Done("open", "ok")
    /\ UNCHANGED <<file, output, meta, blobs, committed>>

InitOp(h, message) ==
    /\ Constructed(h)
    /\ IF Initialized(h)
       THEN /\ last' = Done("init", "AlreadyInitialized")
            /\ UNCHANGED <<file, output, meta, blobs, handle, committed>>
       ELSE LET vfile == _version_file(1, TRUE)
                st == RepoState(handle[h].doc_type, handle[h].snapshot_interval,
                                <<SnapshotEntry(1, vfile, message)>>)
            IN  /\ blobs' = write_bytes(blobs, vfile, file)
                /\ handle' = [handle EXCEPT ![h].state = <<st>>]
                /\ meta' = save(st)
                /\ committed' = <<file>>
                /\ last' = Done("init", "ok")
                /\ UNCHANGED <<file, output>>

AddOp(h, message, tool) ==
    /\ Constructed(h)
    /\ IF ~Initialized(h)
       THEN /\ last' = Done("add", "NotInitialized")
            /\ UNCHANGED <<file, output, meta, blobs, handle, committed>>
       ELSE LET st == handle[h].state[1]
                next_ver == next_version(st)
                r == add(st, blobs, tool, file, message)
            IN  /\ next_ver <= MaxVersions
                /\ blobs' = r.blobs
                /\ handle' = [handle EXCEPT ![h].state = <<r.state>>]
                /\ meta' = IF r.err = "ok" THEN save(r.state) ELSE meta
                /\ committed' = IF r.err = "ok"
                                THEN SubSeq(committed, 1,
                                            Min({next_ver - 1, Len(committed)}))
                                         \o <<file>>
                                ELSE committed
                /\ last' = Done("add", r.err)
                /\ UNCHANGED <<file, output>>

\* add in an environment where writing a temporary file may fail
AddIOOp(h, message, tool, io) ==
    /\ Constructed(h)
    /\ IF ~Initialized(h)
       THEN /\ last' = Done("add", "NotInitialized")
            /\ UNCHANGED <<file, output, meta, blobs, handle, committed>>
       ELSE LET st == handle[h].state[1]
                next_ver == next_version(st)
                r == add_io(st, blobs, tool, file, message, io)
            IN  /\ next_ver <= MaxVersions
                /\ blobs' = r.blobs
                /\ handle' = [handle EXCEPT ![h].state = <<r.state>>]
                /\ meta' = IF r.err = "ok" THEN save(r.state) ELSE meta
                /\ committed' = IF r.err = "ok"
                                THEN SubSeq(committed, 1,
                                            Min({next_ver - 1, Len(committed)}))
                                         \o <<file>>
                                ELSE committed
                /\ last' = Done("add", r.err)
                /\ UNCHANGED <<file, output>>

\* a mutant of get: the output file is written whether or not the
\* reconstruction succeeded
GetOpWritesOnFailure(h, version, tool) ==
    /\ Constructed(h)
    /\ IF ~Initialized(h)
       THEN /\ last' = Done("get", "NotInitialized")
            /\ UNCHANGED output
       ELSE LET r == _reconstruct_bytes(handle[h].state[1], blobs, tool, version)
            IN  /\ output' = <<r.data>>
                /\ last' = Done("get", r.err)
    /\ UNCHANGED <<file, meta, blobs, handle, committed>>

GetOp(h, version, tool) ==
    /\ Constructed(h)
    /\ IF ~Initialized(h)
       THEN /\ last' = Done("get", "NotInitialized")
            /\ UNCHANGED output
       ELSE LET r == _reconstruct_bytes(handle[h].state[1], blobs, tool, version)
            IN  /\ output' = IF r.err = "ok" THEN <<r.data>> ELSE output
                /\ last' = Done("get", r.err)
    /\ UNCHANGED <<file, meta, blobs, handle, committed>>

\* the output paths a caller may give to get: a file outside the repository,
\* the tracked file itself, and a blob file of the repository directory
OutsidePath == <<0, "out">>

TrackedPath == <<0, "file">>

OutputPaths == {OutsidePath, TrackedPath, _version_file(1, TRUE)}

\* a mutant of write_output: get writes the tracked file as well
write_output_and_file(out_path, data, f, bl, out) ==
    [file   |-> data,
     blobs  |-> IF out_path \in DOMAIN bl THEN write_bytes(bl, out_path, data) ELSE bl,
     output |-> IF out_path = OutsidePath THEN <<data>> ELSE out]

\* Path(output).write_bytes(bytes_) in get: the file the path names is written
write_output(out_path, data, f, bl, out) ==
    [file   |-> IF out_path = TrackedPath THEN data ELSE f,
     blobs  |-> IF out_path \in DOMAIN bl THEN write_bytes(bl, out_path, data) ELSE bl,
     output |-> IF out_path = OutsidePath THEN <<data>> ELSE out]

\* get with the output path as an argument
GetPathOp(h, version, out_path, tool) ==
    /\ Constructed(h)
    /\ IF ~Initialized(h)
       THEN /\ last' = [op |-> "get", outcome |-> "NotInitialized", output |-> out_path]
            /\ UNCHANGED <<file, blobs, output>>
       ELSE LET r == _reconstruct_bytes(handle[h].state[1], blobs, tool, version)
                w == write_output(out_path, r.data, file, blobs, output)
            IN  /\ file' = IF r.err = "ok" THEN w.file ELSE file
                /\ blobs' = IF r.err = "ok" THEN w.blobs ELSE blobs
                /\ output' = IF r.err = "ok" THEN w.output ELSE output
                /\ last' = [op |-> "get", outcome |-> r.err, output |-> out_path]
    /\ UNCHANGED <<meta, handle, committed>>

\* a mutant of revert: the deltas are replayed on the working file instead of
\* on the snapshot
RevertOpOnWorkingFile(h, version, tool) ==
    /\ Constructed(h)
    /\ IF ~Initialized(h)
       THEN /\ last' = Done("revert", "NotInitialized")
            /\ UNCHANGED file
       ELSE LET st == handle[h].state[1]
                r0 == _reconstruct_bytes(st, blobs, tool, version)
                s == _nearest_snapshot_at_or_before(st.versions, version)
                r == IF r0.err # "ok" THEN r0
                     ELSE Replay(st.versions, blobs, tool,
                                 st.versions[s].version + 1, version, file)
            IN  /\ file' = IF r.err = "ok" THEN r.data ELSE file
                /\ last' = Done("revert", r.err)
    /\ UNCHANGED <<output, meta, blobs, handle, committed>>

RevertOp(h, version, tool) ==
    /\ Constructed(h)
    /\ IF ~Initialized(h)
       THEN /\ last' = Done("revert", "NotInitialized")
            /\ UNCHANGED file
       ELSE LET r == _reconstruct_bytes(handle[h].state[1], blobs, tool, version)
            IN  /\ file' = IF r.err = "ok" THEN r.data ELSE file
                /\ last' = Done("revert", r.err)
    /\ UNCHANGED <<output, meta, blobs, handle, committed>>

HistoryOp(h) ==
    /\ Constructed(h)
    /\ last' = Done("history", IF Initialized(h) THEN "ok" ELSE "NotInitialized")
    /\ UNCHANGED <<file, output, meta, blobs, handle, committed>>

\* a mutant of show_diff: the versions are reconstructed before the type test
show_diff_reconstructs_first(st, bl, tool, v1, v2, parses) ==
    LET b1 == _reconstruct_bytes(st, bl, tool, v1)
        b2 == _reconstruct_bytes(st, bl, tool, v2)
    IN  IF b1.err # "ok" THEN b1.err
        ELSE IF b2.err # "ok" THEN b2.err
        ELSE IF st.document_type # "docx" THEN "Unsupported"
        ELSE IF ~parses THEN "BadZipFile"
        ELSE "ok"

\* show_diff(v1, v2) on an initialized handle; parses tells whether both
\* reconstructed documents open as DOCX archives
show_diff(st, bl, tool, v1, v2, parses) ==
    IF st.document_type # "docx" THEN "Unsupported"
    ELSE LET b1 == _reconstruct_bytes(st, bl, tool, v1)
             b2 == _reconstruct_bytes(st, bl, tool, v2)
         IN  IF b1.err # "ok" THEN b1.err
             ELSE IF b2.err # "ok" THEN b2.err
             ELSE IF ~parses THEN "BadZipFile"
             ELSE "ok"

ShowDiffOp(h, tool) ==
    /\ Constructed(h)
    /\ IF ~Initialized(h)
       THEN last' = Done("show_diff", "NotInitialized")
       ELSE last' \in {Done("show_diff",
                            show_diff(handle[h].state[1], blobs, tool, v1, v2, parses)) :
                       v1 \in VersionArgs, v2 \in VersionArgs, parses \in BOOLEAN}
    /\ UNCHANGED <<file, output, meta, blobs, handle, committed>>

\* ------------------------------------------------------------------ file writes
\* the content of a blob file whose write was cut short: no complete content
Truncated == NumBytes

\* the content of metadata.json while write_text is overwriting it, or after
\* it was cut short: no JSON document; versions are the records whose text is
\* already in the file
Truncation(st, kept) ==
    [malformed |-> TRUE,
     versions |-> SubSeq(st.versions, 1, Min({kept, Len(st.versions)}))]

IsMalformed(m) == m # <<>> /\ "malformed" \in DOMAIN m[1]

\* RepoState.load on the content m of metadata.json: json.loads raises on a
\* text that is no JSON document; the document_type is not looked at
load_file(m) ==
    IF m = <<>> THEN [err |-> "ok", state |-> <<>>]
    ELSE IF IsMalformed(m) THEN [err |-> "JSONDecodeError", state |-> <<>>]
    ELSE [err |-> "ok", state |-> m]

\* a DVCS object is inside RepoState.save
Saving == IsMalformed(meta) /\ \E h \in DOMAIN handle : Initialized(h)

\* the state and the files DVCS.init leaves when it runs to its end
init_result(hd, bl, data, message) ==
    LET vfile == _version_file(1, TRUE)
    IN  [err |-> "ok",
         state |-> RepoState(hd.doc_type, hd.snapshot_interval,
                             <<SnapshotEntry(1, vfile, message)>>),
         blobs |-> write_bytes(bl, vfile, data)]

\* a mutant of stopped: metadata.json is saved before the blob is written
stopped_ledger_first(r, m, bl, point, complete, kept) ==
    IF point = "blob"
    THEN [meta |-> save(r.state), blobs |-> bl]
    ELSE [meta |-> <<Truncation(r.state, kept)>>, blobs |-> r.blobs]

\* the files of the repository when an init or an add with result r, begun
\* with metadata m and files bl, has got as far as point: "blob", the write of
\* the version's file (complete or not), or "save", the overwriting of
\* metadata.json
stopped(r, m, bl, point, complete, kept) ==
    IF point = "blob"
    THEN LET f == LastOf(r.state.versions).file
         IN  [meta |-> m,
              blobs |-> write_bytes(bl, f, IF complete THEN r.blobs[f] ELSE Truncated)]
    ELSE [meta |-> <<Truncation(r.state, kept)>>, blobs |-> r.blobs]

StopPoints == {"blob", "save"}

Without(h) == [x \in (DOMAIN handle) \ {h} |-> handle[x]]

\* DVCS(...) where metadata.json may be no JSON document: the constructor
\* raises and there is no object
OpenIO(h, doc_type, snapshot_interval) ==
    /\ ~Saving
    /\ LET l == load_file(meta) IN
       IF l.err # "ok"
       THEN /\ handle' = Without(h)
            /\ last' = Done("open", l.err)
       ELSE /\ handle' = (h :> [doc_type |-> doc_type,
                               snapshot_interval |-> snapshot_interval,
                               state |-> l.state]) @@ handle
            /\ last' = Done("open", "ok")
    /\ UNCHANGED <<file, output, meta, blobs, committed>>

\* RepoState.load run by another process (_open_inferred), at any time
LoadOp ==
    /\ last' = Done("load", load_file(meta).err)
    /\ UNCHANGED <<file, output, meta, blobs, handle, committed>>

\* init as far as point: at "blob" the process stops there; at "save" the
\* object is inside save, metadata.json opened for writing
InitStops(h, message, point, complete, kept) ==
    /\ ~Saving
    /\ Constructed(h)
    /\ ~Initialized(h)
    /\ LET r == init_result(handle[h], blobs, file, message)
           s == stopped(r, meta, blobs, point, complete, kept)
       IN  /\ blobs' = s.blobs
           /\ meta' = s.meta
           /\ handle' = IF point = "save"
                        THEN [handle EXCEPT ![h].state = <<r.state>>]
                        ELSE Without(h)
           /\ committed' = IF point = "save" THEN <<file>> ELSE committed
           /\ last' = Done("init", point)
    /\ UNCHANGED <<file, output>>

\* add as far as point, when it gets that far; else add as a whole
AddStops(h, message, tool, point, complete, kept) ==
    /\ ~Saving
    /\ Constructed(h)
    /\ Initialized(h)
    /\ LET st == handle[h].state[1]
           next_ver == next_version(st)
           r == add(st, blobs, tool, file, message)
           s == stopped(r, meta, blobs, point, complete, kept)
       IN  /\ next_ver <= MaxVersions
           /\ IF r.err # "ok"
              THEN /\ last' = Done("add", r.err)
                   /\ UNCHANGED <<meta, blobs, handle, committed>>
              ELSE /\ blobs' = s.blobs
                   /\ meta' = s.meta
                   /\ handle' = IF point = "save"
                                THEN [handle EXCEPT ![h].state = <<r.state>>]
                                ELSE Without(h)
                   /\ committed' = IF point = "save"
                                   THEN SubSeq(committed, 1,
                                               Min({next_ver - 1, Len(committed)}))
                                            \o <<file>>
                                   ELSE committed
                   /\ last' = Done("add", point)
    /\ UNCHANGED <<file, output>>

\* write_text returns: metadata.json holds the whole in-memory state
SaveFinish(h) ==
    /\ Saving
    /\ Constructed(h)
    /\ Initialized(h)
    /\ meta' = save(handle[h].state[1])
    /\ last' = Done("save", "ok")
    /\ UNCHANGED <<file, output, blobs, handle, committed>>

\* the process of a DVCS object ends, or is killed inside save
Crash(h) ==
    /\ Constructed(h)
    /\ handle' = Without(h)
    /\ last' = Done("crash", "ok")
    /\ UNCHANGED <<file, output, meta, blobs, committed>>

\* ------------------------------------------------------------------ environment
\* the user edits the tracked document
EditFile(b) ==
    /\ file' = b
    /\ last' = Done("edit", "ok")
    /\ UNCHANGED <<output, meta, blobs, handle, committed>>

\* ------------------------------------------------------------------ specification
Init ==
    /\ file \in Bytes
    /\ output = <<>>
    /\ meta = <<>>
    /\ blobs = <<>>
    /\ handle = <<>>
    /\ last = Done("none", "ok")
    /\ committed = <<>>

\* the arguments a handle is constructed with: those of the init command, and
\* afterwards those _open_inferred reads back from the metadata (the doc_type
\* and snapshot_interval of the handle itself are read by init alone, on an
\* uninitialized repository)
OpenArgs ==
    IF meta = <<>> THEN DocTypes \X Intervals
    ELSE {<<meta[1].document_type, meta[1].snapshot_interval>>}

\* the operations of one handle; AddTools is what xdelta3 may do during an add
Engine(h, AddTools) ==
    \/ \E a \in OpenArgs : Open(h, a[1], a[2])
    \/ \E m \in Messages : InitOp(h, m)
    \/ \E m \in Messages, t \in AddTools : AddOp(h, m, t)
    \/ \E v \in VersionArgs, t \in DecodeStates : GetOp(h, v, t)
    \/ \E v \in VersionArgs, t \in DecodeStates : RevertOp(h, v, t)
    \/ HistoryOp(h)
    \/ \E t \in DecodeStates : ShowDiffOp(h, t)

Environment == \E b \in Bytes : EditFile(b)

Next == (\E h \in Handles : Engine(h, ToolStates)) \/ Environment

Spec == Init /\ [][Next]_vars

\* the encoder fails at every add: xdelta3 is missing or exits with an error
NextEncodeFails == (\E h \in Handles : Engine(h, EncodeFailStates)) \/ Environment

SpecEncodeFails == Init /\ [][NextEncodeFails]_vars

\* the encoder never fails at an add
NextEncodeWorks == (\E h \in Handles : Engine(h, EncodeWorkStates)) \/ Environment

SpecEncodeWorks == Init /\ [][NextEncodeWorks]_vars

\* a handle may be constructed with any type and interval at any time, as the
\* init and add commands do; the commands that commit
NextAnyArgs ==
    \/ \E h \in Handles, t \in DocTypes, k \in Intervals : Open(h, t, k)
    \/ \E h \in Handles, m \in Messages : InitOp(h, m)
    \/ \E h \in Handles, m \in Messages, t \in ToolStates : AddOp(h, m, t)
    \/ \E b \in Bytes : EditFile(b)

SpecAnyArgs == Init /\ [][NextAnyArgs]_vars

\* every command, run by a handle constructed with any type and interval
NextAnyArgsAll ==
    \/ NextAnyArgs
    \/ \E h \in Handles, v \in VersionArgs, t \in DecodeStates : GetOp(h, v, t)
    \/ \E h \in Handles, v \in VersionArgs, t \in DecodeStates : RevertOp(h, v, t)
    \/ \E h \in Handles : HistoryOp(h)
    \/ \E h \in Handles, t \in DecodeStates : ShowDiffOp(h, t)

SpecAnyArgsAll == Init /\ [][NextAnyArgsAll]_vars

\* get is given any output path
NextAnyOutput ==
    \/ \E h \in Handles, a \in OpenArgs : Open(h, a[1], a[2])
    \/ \E h \in Handles, m \in Messages : InitOp(h, m)
    \/ \E h \in Handles, m \in Messages, t \in ToolStates : AddOp(h, m, t)
    \/ \E h \in Handles, v \in VersionArgs, p \in OutputPaths, t \in DecodeStates :
          GetPathOp(h, v, p, t)
    \/ \E b \in Bytes : EditFile(b)

SpecAnyOutput == Init /\ [][NextAnyOutput]_vars

\* writing a temporary file of add may fail
NextWriteFailures ==
    \/ \E h \in Handles, a \in OpenArgs : Open(h, a[1], a[2])
    \/ \E h \in Handles, m \in Messages : InitOp(h, m)
    \/ \E h \in Handles, m \in Messages, t \in ToolStates, io \in IOFailures :
          AddIOOp(h, m, t, io)
    \/ \E h \in Handles, v \in VersionArgs, t \in DecodeStates : GetOp(h, v, t)
    \/ \E b \in Bytes : EditFile(b)

SpecWriteFailures == Init /\ [][NextWriteFailures]_vars

\* the values init --interval accepts: argparse type=int, with no range test
IntervalArgs == (-1) .. MaxInterval

\* init is given any integer interval
NextAnyInterval ==
    \/ \E h \in Handles, t \in DocTypes, k \in IntervalArgs :
          /\ meta = <<>>
          /\ Open(h, t, k)
    \/ \E h \in Handles :
          /\ meta # <<>>
          /\ Open(h, meta[1].document_type, meta[1].snapshot_interval)
    \/ \E h \in Handles, m \in Messages : InitOp(h, m)
    \/ \E h \in Handles, m \in Messages, t \in ToolStates : AddOp(h, m, t)
    \/ \E h \in Handles, v \in VersionArgs, t \in DecodeStates : GetOp(h, v, t)
    \/ \E b \in Bytes : EditFile(b)

SpecAnyInterval == Init /\ [][NextAnyInterval]_vars

\* two DVCS objects on one repository, each command running alone
TwoHandles == {1, 2}

NextTwoHandles ==
    \/ \E h \in TwoHandles, a \in OpenArgs : Open(h, a[1], a[2])
    \/ \E h \in TwoHandles, m \in Messages : InitOp(h, m)
    \/ \E h \in TwoHandles, m \in Messages, t \in ToolStates : AddOp(h, m, t)
    \/ \E b \in Bytes : EditFile(b)

SpecTwoHandles == Init /\ [][NextTwoHandles]_vars

\* the doc_type strings a DVCS object may be constructed with: the
\* constructor takes any string, the CLI offers the two recognized ones
DocTypeArgs == DocTypes \cup {"txt"}

\* a repository is initialized by a handle constructed with any doc_type string
NextAnyType ==
    \/ \E h \in Handles, t \in DocTypeArgs, k \in Intervals :
          /\ meta = <<>>
          /\ Open(h, t, k)
    \/ \E h \in Handles :
          /\ meta # <<>>
          /\ Open(h, meta[1].document_type, meta[1].snapshot_interval)
    \/ \E h \in Handles, m \in Messages : InitOp(h, m)
    \/ \E h \in Handles, m \in Messages, t \in ToolStates : AddOp(h, m, t)
    \/ \E h \in Handles : HistoryOp(h)
    \/ \E h \in Handles, t \in DecodeStates : ShowDiffOp(h, t)
    \/ \E b \in Bytes : EditFile(b)

SpecAnyType == Init /\ [][NextAnyType]_vars

\* init and add are followed write by write, and may stop between two writes
OpenIOArgs ==
    IF meta = <<>> \/ IsMalformed(meta) THEN DocTypes \X Intervals
    ELSE {<<meta[1].document_type, meta[1].snapshot_interval>>}

NextStops ==
    \/ \E h \in Handles, a \in OpenIOArgs : OpenIO(h, a[1], a[2])
    \/ LoadOp
    \/ \E h \in Handles, m \in Messages, p \in StopPoints, c \in BOOLEAN,
          k \in 0 .. MaxVersions : InitStops(h, m, p, c, k)
    \/ \E h \in Handles, m \in Messages, t \in ToolStates, p \in StopPoints,
          c \in BOOLEAN, k \in 0 .. MaxVersions : AddStops(h, m, t, p, c, k)
    \/ \E h \in Handles : SaveFinish(h)
    \/ \E h \in Handles : Crash(h)
    \/ \E b \in Bytes : EditFile(b)

SpecStops == Init /\ [][NextStops]_vars

\* ------------------------------------------------------------------ properties
Initialized_repo == meta # <<>>

Ledger == meta[1].versions

IsPrefix(s, t) == Len(s) <= Len(t) /\ SubSeq(t, 1, Len(s)) = s

\* every ledger the program holds: the persisted one and those of the handles
Ledgers ==
    (IF Initialized_repo THEN {meta[1]} ELSE {})
        \cup {handle[h].state[1] : h \in {g \in DOMAIN handle : Initialized(g)}}

IsFallback(entry) == entry.message \in {m \o " (fallback snapshot)" : m \in Messages}

GaplessVersions ==
    \A st \in Ledgers :
        \A i \in 1 .. Len(st.versions) : st.versions[i].version = i

\* a ledger holding a cadence snapshot, a delta and a fallback snapshot
GaplessVersionsWitness ==
    /\ Initialized_repo
    /\ Len(Ledger) = 3
    /\ Ledger[2].kind = "delta"
    /\ IsFallback(Ledger[3])
    /\ Ledger[3].version = 3
    /\ last = Done("add", "ok")

\* C3: the ledger of an initialized repository is non-empty and its first
\* record is version 1, a snapshot.
FirstIsSnapshot ==
    \A st \in Ledgers :
        /\ st.versions # <<>>
        /\ st.versions[1].version = 1
        /\ st.versions[1].kind = "snapshot"

FirstIsSnapshotWitness ==
    /\ Initialized_repo
    /\ Len(Ledger) = 3
    /\ Ledger[3].kind = "delta"
    /\ last = Done("add", "ok")

AddAppendsOne ==
    [][(last'.op = "add" /\ last'.outcome = "ok") =>
          /\ Initialized_repo /\ meta' # <<>>
          /\ Len(meta'[1].versions) = Len(meta[1].versions) + 1
          /\ IsPrefix(meta[1].versions, meta'[1].versions)
          /\ LastOf(meta'[1].versions).version = LastOf(meta[1].versions).version + 1]_vars

AddAppendsOneWitness ==
    /\ Initialized_repo
    /\ Len(Ledger) = 3
    /\ last = Done("add", "ok")
    /\ \E h \in DOMAIN handle : handle[h].state = meta

\* C6 (fallback safety), under SpecEncodeFails where the encoder fails at
\* every add: every add on an initialized repository succeeds and appends a
\* snapshot record holding the file's bytes, and the latest version can be
\* reconstructed whatever the state of the tool.
FallbackSafety ==
    /\ (last.op = "add" /\ last.outcome # "NotInitialized") =>
          /\ last.outcome = "ok"
          /\ Initialized_repo
          /\ LastOf(Ledger).kind = "snapshot"
          /\ blobs[LastOf(Ledger).file] = file
    /\ Initialized_repo =>
          \A tool \in ToolStates :
              _reconstruct_bytes(meta[1], blobs, tool, Len(Ledger))
                  = Ok(LastOf(committed))

\* two fallback snapshots in a row
FallbackSafetyWitness ==
    /\ Initialized_repo
    /\ Len(Ledger) = 3
    /\ IsFallback(Ledger[2])
    /\ IsFallback(Ledger[3])
    /\ last = Done("add", "ok")

\* C7: on an initialized repository, an add during which xdelta3 is
\* unavailable or fails to encode does not fail; it appends one snapshot
\* record holding the current bytes of the file.
AddNeverFailsOnEncode ==
    [][\A h \in Handles : \A m \in Messages : \A tool \in EncodeFailStates :
          (Constructed(h) /\ Initialized(h) /\ AddOp(h, m, tool)) =>
              /\ last'.outcome = "ok"
              /\ Len(meta'[1].versions) = Len(meta[1].versions) + 1
              /\ LastOf(meta'[1].versions).kind = "snapshot"
              /\ blobs'[LastOf(meta'[1].versions).file] = file]_vars

\* C8 (snapshot cadence), under SpecEncodeWorks where no encode fails: a
\* ledger of N versions with interval k holds 1 + floor((N - 1) / k) snapshots.
SnapshotCount ==
    \A st \in Ledgers :
        Cardinality({i \in 1 .. Len(st.versions) : st.versions[i].kind = "snapshot"})
            = 1 + ((Len(st.versions) - 1) \div st.snapshot_interval)

\* three versions at interval 2: two snapshots around one delta
SnapshotCountWitness ==
    /\ Initialized_repo
    /\ meta[1].snapshot_interval = 2
    /\ Len(Ledger) = 3
    /\ Ledger[2].kind = "delta"
    /\ Ledger[3].kind = "snapshot"

\* C9 (bounded chain): for every version v, the nearest snapshot at or before
\* v has a version greater than v - snapshot_interval, so reconstructing v
\* decodes at most snapshot_interval - 1 deltas.
BoundedChain ==
    \A st \in Ledgers :
        \A v \in 1 .. Len(st.versions) :
            LET s == _nearest_snapshot_at_or_before(st.versions, v)
            IN  /\ s # 0
                /\ st.versions[s].version > v - st.snapshot_interval
                /\ Cardinality({w \in (st.versions[s].version + 1) .. v :
                                   st.versions[_entry_for(st.versions, w)].kind = "delta"})
                       <= st.snapshot_interval - 1

\* the longest chain the bounds allow: two deltas at interval 3
BoundedChainWitness ==
    /\ Initialized_repo
    /\ meta[1].snapshot_interval = 3
    /\ Len(Ledger) = 3
    /\ Ledger[2].kind = "delta"
    /\ Ledger[3].kind = "delta"

\* C10 (absolute cadence): after a fallback snapshot at an off-cadence
\* version, the later records that are snapshots not marked as fallbacks are
\* exactly those at the versions v with (v - 1) mod snapshot_interval = 0.
AbsoluteCadence ==
    \A st \in Ledgers :
        \A i \in 1 .. Len(st.versions) :
            (IsFallback(st.versions[i]) /\ PyMod(i - 1, st.snapshot_interval) # 0) =>
                \A j \in (i + 1) .. Len(st.versions) :
                    (st.versions[j].kind = "snapshot" /\ ~IsFallback(st.versions[j]))
                        <=> (PyMod(st.versions[j].version - 1, st.snapshot_interval) = 0)

\* at interval 2 a fallback at version 2 is followed by the cadence snapshot of
\* version 3, one version later and not two
AbsoluteCadenceWitness ==
    /\ Initialized_repo
    /\ meta[1].snapshot_interval = 2
    /\ Len(Ledger) = 3
    /\ IsFallback(Ledger[2])
    /\ Ledger[3].kind = "snapshot"
    /\ ~IsFallback(Ledger[3])

\* C11, under SpecAnyArgs where handles are constructed with any type and
\* interval: init on a repository that is already initialized returns
\* normally and leaves metadata.json (ledger, document_type,
\* snapshot_interval) and every blob unchanged.
InitAgainIsNoOp ==
    [][(Initialized_repo /\ last'.op = "init") =>
          /\ last'.outcome = "AlreadyInitialized"
          /\ meta' = meta
          /\ blobs' = blobs]_vars

\* init was run again after two adds, by a handle constructed with another
\* type and another interval than the persisted ones
InitAgainIsNoOpWitness ==
    /\ Initialized_repo
    /\ Len(Ledger) = 3
    /\ last = Done("init", "AlreadyInitialized")
    /\ \E h \in DOMAIN handle :
          /\ handle[h].doc_type # meta[1].document_type
          /\ handle[h].snapshot_interval # meta[1].snapshot_interval

\* C12: after init on an uninitialized path, metadata.json holds exactly one
\* record, version 1, a snapshot whose blob is the tracked file's bytes, with
\* the document type and the snapshot interval the handle was given.
InitCreatesVersionOne ==
    last = Done("init", "ok") =>
        /\ Initialized_repo
        /\ Len(Ledger) = 1
        /\ Ledger[1].version = 1
        /\ Ledger[1].kind = "snapshot"
        /\ exists(blobs, Ledger[1].file)
        /\ blobs[Ledger[1].file] = file
        /\ \E h \in DOMAIN handle :
              /\ handle[h].state = meta
              /\ meta[1].document_type = handle[h].doc_type
              /\ meta[1].snapshot_interval = handle[h].snapshot_interval

InitCreatesVersionOneWitness ==
    /\ last = Done("init", "ok")
    /\ file = 1
    /\ meta[1].document_type = "pdf"
    /\ meta[1].snapshot_interval = 2

\* the commands that need an initialized repository
RepoOps == {"add", "get", "revert", "history", "show_diff"}

\* C13: while metadata.json does not exist, no handle holds a state, so add,
\* get, revert, history and show_diff end with the not-initialized error
\* (whatever their version arguments), and no blob and no ledger is created.
UninitializedFails ==
    meta = <<>> =>
        /\ \A h \in DOMAIN handle : ~Initialized(h)
        /\ blobs = <<>>
        /\ output = <<>>
        /\ last.op \in RepoOps => last.outcome = "NotInitialized"

UninitializedFailsWitness ==
    /\ meta = <<>>
    /\ last = Done("get", "NotInitialized")

\* C14: on every ledger, reconstructing t fails with the out-of-range error
\* exactly when t < 1 or t is greater than the last version, whatever the
\* state of the tool.
OutOfRangeExactly ==
    \A st \in Ledgers : \A t \in VersionArgs : \A tool \in ToolStates :
        (_reconstruct_bytes(st, blobs, tool, t).err = "VersionOutOfRange")
            <=> (t < 1 \/ t > LastOf(st.versions).version)

\* a get beyond the last of three versions was refused
OutOfRangeExactlyWitness ==
    /\ Initialized_repo
    /\ Len(Ledger) = 3
    /\ Ledger[3].kind = "delta"
    /\ last = Done("get", "VersionOutOfRange")

\* C15: a get whose reconstruction fails leaves the output file as it was and
\* a revert whose reconstruction fails leaves the tracked file as it was; the
\* error is the outcome of the command, and a version stored as a delta is
\* never produced while the decoder is missing or failing.
FailedReadWritesNothing ==
    [][/\ (last'.op = "get" /\ last'.outcome # "ok") => output' = output
       /\ (last'.op = "revert" /\ last'.outcome # "ok") => file' = file
       /\ last'.op \in {"get", "revert"} => (meta' = meta /\ blobs' = blobs)
       /\ Initialized_repo =>
             \A v \in 1 .. Len(Ledger) :
                 Ledger[v].kind = "delta" =>
                     /\ _reconstruct_bytes(meta[1], blobs, "unavailable", v).err
                            = "ToolUnavailable"
                     /\ _reconstruct_bytes(meta[1], blobs, "decode_error", v).err
                            = "DecodeFailed"]_vars

\* a get of a delta version failed for want of the decoder: no output file
FailedReadWritesNothingWitness ==
    /\ Initialized_repo
    /\ Len(Ledger) >= 2
    /\ last = Done("get", "ToolUnavailable")
    /\ output = <<>>

\* C17: a successful revert to v sets the tracked file to the bytes committed
\* as v and changes neither the ledger nor a blob; the reverted content is
\* recorded only by a later add, as the version after the last one.
RevertSetsFileOnly ==
    [][/\ (last'.op = "revert" /\ last'.outcome = "ok") =>
             \A h \in Handles : \A v \in VersionArgs : \A t \in DecodeStates :
                 RevertOp(h, v, t) =>
                     /\ file' = committed[v]
                     /\ meta' = meta
                     /\ blobs' = blobs
       /\ (last'.op = "add" /\ last'.outcome = "ok") =>
             /\ Len(meta'[1].versions) = Len(meta[1].versions) + 1
             /\ _reconstruct_bytes(meta'[1], blobs', "ok",
                                   Len(meta[1].versions) + 1) = Ok(file)]_vars

\* a revert to version 1 put back bytes that differ from the last version's
RevertSetsFileOnlyWitness ==
    /\ Initialized_repo
    /\ Len(Ledger) = 2
    /\ last = Done("revert", "ok")
    /\ file = committed[1]
    /\ file # committed[2]

\* C18: in the state a successful revert to v leaves, a second revert to v
\* writes the bytes the file already has (or, when the decoder has gone,
\* fails and writes nothing).
RevertIdempotent ==
    [][(last'.op = "revert" /\ last'.outcome = "ok") =>
          \A h \in Handles : \A v \in VersionArgs : \A t \in DecodeStates :
              RevertOp(h, v, t) =>
                  /\ _reconstruct_bytes(handle'[h].state[1], blobs', t, v)
                         = Ok(file')
                  /\ \A t2 \in DecodeStates :
                        LET r2 == _reconstruct_bytes(handle'[h].state[1],
                                                     blobs', t2, v)
                        IN  (IF r2.err = "ok" THEN r2.data ELSE file') = file']_vars

\* a revert to a delta version changed the tracked file
RevertIdempotentWitness ==
    /\ Initialized_repo
    /\ Len(Ledger) = 3
    /\ Ledger[2].kind = "delta"
    /\ last = Done("revert", "ok")
    /\ file = committed[2]
    /\ file # committed[1]
    /\ file # committed[3]

\* C19: a successful add changes the result of reconstructing no version
\* that existed before it, whatever the state of the decoder.
HistoryStable ==
    [][(Initialized_repo /\ last'.op = "add" /\ last'.outcome = "ok") =>
          \A v \in 1 .. Len(meta[1].versions) : \A t \in DecodeStates :
              _reconstruct_bytes(meta'[1], blobs', t, v)
                  = _reconstruct_bytes(meta[1], blobs, t, v)]_vars

\* a snapshot was added after a delta version with other bytes
HistoryStableWitness ==
    /\ Initialized_repo
    /\ Len(Ledger) = 3
    /\ Ledger[2].kind = "delta"
    /\ Ledger[3].kind = "snapshot"
    /\ committed[3] # committed[2]
    /\ last = Done("add", "ok")

\* C16 as stated, for every output path: a get changes neither the ledger,
\* nor a blob, nor the tracked file.
GetChangesNothing ==
    [][last'.op = "get" =>
          /\ meta' = meta
          /\ blobs' = blobs
          /\ file' = file]_vars

\* C16, amended: a get whose output path is neither the tracked file nor a
\* file of the repository directory changes neither the ledger, nor a blob,
\* nor the tracked file; when it succeeds the output file holds the
\* reconstructed bytes.
GetWritesOutputOnly ==
    [][(last'.op = "get" /\ last'.output = OutsidePath) =>
          /\ meta' = meta
          /\ blobs' = blobs
          /\ file' = file
          /\ last'.outcome = "ok" =>
                \E h \in Handles : \E v \in VersionArgs : \E t \in DecodeStates :
                    output' = <<_reconstruct_bytes(handle[h].state[1], blobs, t, v).data>>]_vars

\* a get to a path outside the repository wrote bytes that differ from the
\* tracked file's
GetWritesOutputOnlyWitness ==
    /\ Initialized_repo
    /\ Len(Ledger) >= 2
    /\ last = [op |-> "get", outcome |-> "ok", output |-> OutsidePath]
    /\ output # <<>>
    /\ output[1] # file

\* C20: after every command, none of .prior.tmp, .new.tmp, .base.tmp and
\* .out.tmp is a file of the repository directory.
NoTempFiles == (DOMAIN blobs) \cap TempFiles = {}

\* C24: in every ledger, a delta record has base_version = version - 1 and
\* a snapshot record (of init, of the cadence or of the fallback) has none.
BaseVersions ==
    \A st \in Ledgers :
        \A i \in 1 .. Len(st.versions) :
            LET e == st.versions[i] IN
            /\ e.kind = "delta" => e.base_version = e.version - 1
            /\ e.kind = "snapshot" => e.base_version = NoBase

\* a ledger with the snapshot of init, a delta and a fallback snapshot
BaseVersionsWitness ==
    /\ Initialized_repo
    /\ Len(Ledger) = 3
    /\ Ledger[2].kind = "delta"
    /\ Ledger[2].base_version = 1
    /\ IsFallback(Ledger[3])

\* C25: whenever reconstruction stops at a delta that cannot be applied
\* (decoder missing, or decoder error), the error raised names the version
\* of that delta record.
ErrorNamesVersion ==
    \A st \in Ledgers : \A t \in 1 .. Len(st.versions) : \A tool \in DecodeStates :
        _reconstruct_bytes(st, blobs, tool, t).err \in {"ToolUnavailable", "DecodeFailed"} =>
            LET msg == ErrorMessage(st, blobs, tool, t)
            IN  /\ Len(msg) = 2
                /\ msg[2] = FailingVersion(st, blobs, tool, t)
                /\ st.versions[msg[2]].kind = "delta"

\* C26: show_diff on an initialized repository whose document type is not
\* docx ends with "unsupported", whatever the two versions are, without an
\* error and without changing the repository, the tracked file or the
\* output file.
ShowDiffUnsupported ==
    [][(Initialized_repo /\ meta[1].document_type # "docx" /\ last'.op = "show_diff") =>
          /\ last'.outcome = "Unsupported"
          /\ meta' = meta
          /\ blobs' = blobs
          /\ file' = file
          /\ output' = output]_vars

ShowDiffUnsupportedWitness ==
    /\ Initialized_repo
    /\ meta[1].document_type = "pdf"
    /\ Len(Ledger) = 3
    /\ Ledger[2].kind = "delta"
    /\ last = Done("show_diff", "Unsupported")

\* C29, under SpecAnyArgs where the handle that adds is constructed with any
\* interval: the records of the ledger follow the snapshot_interval persisted
\* at init; version v is a plain snapshot when (v - 1) mod that interval is
\* 0, and a delta or a fallback snapshot otherwise.
PersistedIntervalDecides ==
    Initialized_repo =>
        \A i \in 1 .. Len(Ledger) :
            LET e == Ledger[i]
                cadence == PyMod(e.version - 1, meta[1].snapshot_interval) = 0
            IN  /\ cadence => (e.kind = "snapshot" /\ ~IsFallback(e))
                /\ ~cadence => (e.kind = "delta" \/ IsFallback(e))

\* a handle constructed with interval 1 added version 2 as a delta to a
\* repository of interval 2, and version 3 as a snapshot
PersistedIntervalDecidesWitness ==
    /\ Initialized_repo
    /\ meta[1].snapshot_interval = 2
    /\ Len(Ledger) = 3
    /\ Ledger[2].kind = "delta"
    /\ Ledger[3].kind = "snapshot"
    /\ last = Done("add", "ok")
    /\ \E h \in DOMAIN handle : handle[h].snapshot_interval = 1

\* C30: an add that fails because version next - 1 cannot be reconstructed
\* (decoder missing or decoder error) appends no record, in memory or in
\* metadata.json, and writes no file.
FailedAddWritesNothing ==
    [][(last'.op = "add" /\ last'.outcome \in {"ToolUnavailable", "DecodeFailed"}) =>
          /\ meta' = meta
          /\ blobs' = blobs
          /\ handle' = handle
          /\ committed' = committed]_vars

\* an add at version 3 failed: two records and two files
FailedAddWritesNothingWitness ==
    /\ Initialized_repo
    /\ Len(Ledger) = 2
    /\ Ledger[2].kind = "delta"
    /\ DOMAIN blobs = {Ledger[1].file, Ledger[2].file}
    /\ last = Done("add", "ToolUnavailable")
    /\ \A h \in DOMAIN handle : handle[h].state = meta

\* C23: the snapshot_interval init persists is a positive integer, and the
\* cadence test of add never divides by zero.
PositiveInterval ==
    /\ Initialized_repo => meta[1].snapshot_interval >= 1
    /\ last # Done("add", "ZeroDivisionError")

\* C27, under SpecTwoHandles: every successful add, by whichever handle,
\* makes the persisted ledger one record longer, keeps the records it had and
\* overwrites no file of the repository.
BothCommitsKept ==
    [][(Initialized_repo /\ last'.op = "add" /\ last'.outcome = "ok") =>
          /\ Len(meta'[1].versions) = Len(meta[1].versions) + 1
          /\ IsPrefix(meta[1].versions, meta'[1].versions)
          /\ \A f \in DOMAIN blobs : f \in DOMAIN blobs' /\ blobs'[f] = blobs[f]]_vars

\* C22: the constructor's load gives no state exactly when metadata.json
\* does not exist, and it never gives the state of a metadata.json whose
\* document_type is not one of the two recognized values.
LoadChecksType ==
    last.op = "open" =>
        \A h \in DOMAIN handle :
            /\ ~Initialized(h) <=> meta = <<>>
            /\ Initialized(h) => handle[h].state[1].document_type \in DocTypes

\* C21: a load, whenever it runs, finds in metadata.json a whole ledger (the
\* one before a save or the one after it) or no file, never a part of one.
LoadSeesWholeLedger ==
    last.op \in {"load", "open"} =>
        /\ last.outcome = "ok"
        /\ ~IsMalformed(meta)

\* C28, under SpecStops: at every point of init and add, stopped or not,
\* every record that is in metadata.json names a file of the repository
\* directory that holds a complete content, and for a snapshot record the
\* content committed as that version.
BlobBeforeLedger ==
    meta # <<>> =>
        \A i \in 1 .. Len(meta[1].versions) :
            LET e == meta[1].versions[i] IN
            /\ exists(blobs, e.file)
            /\ blobs[e.file] \in Bytes
            /\ (e.kind = "snapshot" /\ ~IsMalformed(meta)) => blobs[e.file] = committed[i]

\* an add stopped while it wrote the file of version 2: the file is there,
\* cut short, and the ledger has the record of version 1 only
BlobBeforeLedgerWitness ==
    /\ meta # <<>>
    /\ ~IsMalformed(meta)
    /\ Len(meta[1].versions) = 1
    /\ last = Done("add", "blob")
    /\ \E f \in DOMAIN blobs : f[1] = 2 /\ blobs[f] = Truncated

\* C31: on every ledger, a version whose record is a snapshot is
\* reconstructed with xdelta3 missing, whatever the other records are, and a
\* version whose record is a delta is not: the reconstruction fails for want
\* of the tool.
ToolNeededIffDelta ==
    \A st \in Ledgers :
        \A v \in 1 .. Len(st.versions) :
            LET r == _reconstruct_bytes(st, blobs, "unavailable", v) IN
            /\ st.versions[v].kind = "snapshot" => r = Ok(blobs[st.versions[v].file])
            /\ st.versions[v].kind = "delta" => r.err = "ToolUnavailable"

\* a ledger snapshot, delta, snapshot, and a get refused for want of the tool
ToolNeededIffDeltaWitness ==
    /\ Initialized_repo
    /\ Len(Ledger) = 3
    /\ Ledger[2].kind = "delta"
    /\ Ledger[3].kind = "snapshot"
    /\ last = Done("get", "ToolUnavailable")

\* C33: a record's message is the caller's message followed by the fallback
\* annotation exactly when the record is a snapshot at an off-cadence version
\* (the encode-failure fallback); the snapshot of init, the cadence snapshots
\* and the deltas store the caller's message as given.
FallbackAnnotation ==
    \A st \in Ledgers :
        \A i \in 1 .. Len(st.versions) :
            LET e == st.versions[i]
                fallback == /\ e.kind = "snapshot"
                            /\ PyMod(e.version - 1, st.snapshot_interval) # 0
            IN  /\ fallback => IsFallback(e)
                /\ ~fallback => e.message \in Messages

\* a ledger with a delta and a fallback snapshot after it
FallbackAnnotationWitness ==
    /\ Initialized_repo
    /\ Len(Ledger) = 3
    /\ Ledger[1].message \in Messages
    /\ Ledger[2].kind = "delta"
    /\ Ledger[2].message \in Messages
    /\ Ledger[3].kind = "snapshot"
    /\ IsFallback(Ledger[3])
    /\ last = Done("add", "ok")

\* C34: on every ledger and for every version t, the records after the
\* nearest snapshot at or before t, up to t, are deltas: the loop of
\* _reconstruct_bytes never comes to a snapshot record.
ReplayMeetsDeltasOnly ==
    \A st \in Ledgers :
        \A t \in 1 .. Len(st.versions) :
            LET s == _nearest_snapshot_at_or_before(st.versions, t) IN
            /\ s # 0
            /\ \A v \in (st.versions[s].version + 1) .. t :
                  /\ _entry_for(st.versions, v) # 0
                  /\ st.versions[_entry_for(st.versions, v)].kind = "delta"

\* version 3, a delta, was reconstructed from the snapshot at version 2
ReplayMeetsDeltasOnlyWitness ==
    /\ Initialized_repo
    /\ Len(Ledger) = 3
    /\ Ledger[2].kind = "snapshot"
    /\ Ledger[3].kind = "delta"
    /\ output = <<committed[3]>>
    /\ committed[3] # committed[2]
    /\ last = Done("get", "ok")

\* C36: on every ledger, the scan for the nearest snapshot at or before t
\* finds one for every version t of the ledger, and so does the scan of add
\* for a snapshot before the next version; no command ends with the
\* missing-snapshot error.
SnapshotAlwaysFound ==
    /\ \A st \in Ledgers :
          /\ \A t \in 1 .. LastOf(st.versions).version :
                _nearest_snapshot_at_or_before(st.versions, t) # 0
          /\ _nearest_snapshot_before(st.versions, next_version(st)) # 0
    /\ last.outcome # "NoSnapshot"

\* an add made a delta from the only snapshot, that of version 1
SnapshotAlwaysFoundWitness ==
    /\ Initialized_repo
    /\ Len(Ledger) = 3
    /\ Ledger[2].kind = "delta"
    /\ Ledger[3].kind = "delta"
    /\ last = Done("add", "ok")

\* C38: in every ledger, a record's file name is made of its version number
\* and the suffix of its kind, and no two records have the same file name.
FileNames ==
    \A st \in Ledgers :
        /\ \A i \in 1 .. Len(st.versions) :
              LET e == st.versions[i] IN
              /\ e.file[1] = e.version
              /\ e.file[2] = (IF e.kind = "snapshot" THEN ".snapshot" ELSE ".delta")
        /\ \A i, j \in 1 .. Len(st.versions) :
              st.versions[i].file = st.versions[j].file => i = j

\* a ledger with files of both suffixes
FileNamesWitness ==
    /\ Initialized_repo
    /\ Len(Ledger) = 3
    /\ Ledger[1].file = <<1, ".snapshot">>
    /\ Ledger[2].file = <<2, ".delta">>
    /\ Ledger[3].file = <<3, ".snapshot">>

\* the values a base_version field may hold
BaseValues == 0 .. MaxVersions

\* the ledger st with the base_version of record i replaced by b[i]
WithBase(st, b) ==
    [st EXCEPT !.versions =
        [i \in 1 .. Len(st.versions) |->
            [st.versions[i] EXCEPT !.base_version = b[i]]]]

\* C37: a ledger and any ledger that differs from it in base_version fields
\* only give, over the same files, the same result (bytes or error) of
\* _reconstruct_bytes for every version argument and every state of the tool.
BaseVersionUnused ==
    \A st \in Ledgers :
        \A b \in [1 .. Len(st.versions) -> BaseValues] :
            \A t \in VersionArgs : \A tool \in DecodeStates :
                _reconstruct_bytes(WithBase(st, b), blobs, tool, t)
                    = _reconstruct_bytes(st, blobs, tool, t)

\* a ledger with two deltas, whose base_version fields are 1 and 2, and a get
\* of the last version
BaseVersionUnusedWitness ==
    /\ Initialized_repo
    /\ Len(Ledger) = 3
    /\ Ledger[2].kind = "delta"
    /\ Ledger[2].base_version = 1
    /\ Ledger[3].kind = "delta"
    /\ Ledger[3].base_version = 2
    /\ output = <<committed[3]>>
    /\ last = Done("get", "ok")

\* every record at a cadence version of the persisted ledger is a snapshot,
\* so deltas stand at off-cadence versions only
CadenceRecordsAreSnapshots ==
    Initialized_repo =>
        \A i \in 1 .. Len(Ledger) :
            PyMod(Ledger[i].version - 1, meta[1].snapshot_interval) = 0
                => Ledger[i].kind = "snapshot"

\* C32: after every step, every record at a version v with
\* (v - 1) mod snapshot_interval = 0 is a snapshot, and deltas stand at
\* off-cadence versions only; and the record an add appends at an off-cadence
\* version is a delta exactly when the encode of that add succeeded.
CadenceAndEncode ==
    [][/\ CadenceRecordsAreSnapshots'
       /\ (last'.op = "add" /\ last'.outcome = "ok") =>
            \A h \in Handles, m \in Messages, t \in ToolStates :
                AddOp(h, m, t) =>
                    LET st == handle[h].state[1]
                        n == next_version(st)
                        e == LastOf(meta'[1].versions)
                    IN  /\ e.version = n
                        /\ PyMod(n - 1, st.snapshot_interval) # 0 =>
                             (e.kind = "delta"
                                <=> EncodeSucceeds(t, blobs, _version_file(n, FALSE)))]_vars

\* version 2 was added as a delta and version 3, off the cadence as well, as
\* a snapshot because its encode failed
CadenceAndEncodeWitness ==
    /\ Initialized_repo
    /\ meta[1].snapshot_interval = 3
    /\ Len(Ledger) = 3
    /\ Ledger[2].kind = "delta"
    /\ Ledger[3].kind = "snapshot"
    /\ last = Done("add", "ok")

\* C35, under SpecAnyArgsAll where every command is run by a handle
\* constructed with any type and interval: once metadata.json exists, no
\* step (add, get, revert, history, show_diff, init again, constructing a
\* handle) changes its document_type or its snapshot_interval.
PersistedArgsFrozen ==
    [][Initialized_repo =>
          /\ meta' # <<>>
          /\ meta'[1].document_type = meta[1].document_type
          /\ meta'[1].snapshot_interval = meta[1].snapshot_interval]_vars

\* a handle constructed with another type and another interval than the
\* persisted ones has added version 3
PersistedArgsFrozenWitness ==
    /\ Initialized_repo
    /\ Len(Ledger) = 3
    /\ last = Done("add", "ok")
    /\ \E h \in DOMAIN handle :
          /\ handle[h].state = meta
          /\ handle[h].doc_type # meta[1].document_type
          /\ handle[h].snapshot_interval # meta[1].snapshot_interval

====
